---- MODULE Spec2Model ----
(***************************************************************************)
(* A model of scripts/conv.py: MusicXMLConverter, the MusicXML -> JSON     *)
(* converter of the piano trainer.  One converter instance is handed a     *)
(* stream of documents; each document is a stream of parts, measures and   *)
(* measure elements (attributes, note, backup, forward).                   *)
(*                                                                         *)
(* Beats and durations are floats in the code.  Here they are fixed-point  *)
(* numbers: an integer count of ticks, TicksPerBeat ticks to the quarter   *)
(* note.  A division that is not exact in ticks is truncated, which plays  *)
(* the part of the float rounding error that round_beat exists to remove.  *)
(*                                                                         *)
(* Two further specifications stand beside the converter's: RoundBeatSpec  *)
(* applies round_beat on its own to arguments around the grid, and         *)
(* EditorSpec is scripts/edit_json.py: a SongEditor on a song in the JSON  *)
(* schema the converter writes, and its extract_measures and               *)
(* filter_by_pitch.                                                        *)
(***************************************************************************)
EXTENDS Integers, Sequences, FiniteSets, TLC

\* ------------------------------------------------------------------ bounds

\* Size of the input handed to one converter instance: every document, part,
\* measure and measure element counts one.
MaxInput == 7

\* round_beat on its own: arguments lie within MaxEighths eighths of a beat
\* of zero, and the function is applied MaxCalls times in a row.
MaxEighths == 8
MaxCalls == 2

\* The editing tool: the song has up to MaxNotes notes, and measure numbers
\* run from 0 to MaxMeasure.
MaxNotes == 2
MaxMeasure == 2

\* ------------------------------------------------------- program constants

DefaultDivisions == 24
DefaultVelocity == 80
DefaultBpm == 120
\* round_beat's tolerance is 0.0001 = 1 / ToleranceDenominator of a beat.
ToleranceDenominator == 10000

TicksPerBeat == DefaultDivisions * ToleranceDenominator
Tolerance == TicksPerBeat \div ToleranceDenominator

\* ------------------------------------------------------------------- input

\* voice_elem.text / staff_elem.text of a note (an absent <voice> or <staff>
\* reads as its default, "1" or 1, and is written here as that value).
VoiceStaffs == { <<"1", 1>>, <<"2", 1>>, <<"1", 2>> }

\* A measure element.  kind is what a note encodes: "pitch" (a <pitch>
\* child), "rest" (a <rest> child) or "none" (neither).
Element(tag, vs, has_duration, duration, kind, step, chord, tie_start, tie_stop, has_divisions, divisions_value) ==
    [ tag |-> tag, voice |-> vs[1], staff |-> vs[2],
      has_duration |-> has_duration, duration |-> duration,
      kind |-> kind, step |-> step, chord |-> chord,
      tie_start |-> tie_start, tie_stop |-> tie_stop,
      has_divisions |-> has_divisions, divisions_value |-> divisions_value ]

NoteElement(vs, has_duration, duration, kind, step, chord, tie_start, tie_stop) ==
    Element("note", vs, has_duration, duration, kind, step, chord, tie_start, tie_stop, FALSE, 0)

\* The loop variable before the first element of a conversion.
NoElement == Element("none", <<"1", 1>>, FALSE, 0, "none", "C", FALSE, FALSE, FALSE, FALSE, 0)

\* Pitched notes of step C, not chord-flagged: the first voice with every
\* combination of tie markers, the second voice plain or with a tie-stop, the
\* second staff with a tie-stop.  A note that carries a tie-stop lasts 4
\* units, any other 3.
TieNotes ==
    { NoteElement(<<"1", 1>>, TRUE, IF tp THEN 4 ELSE 3, "pitch", "C", FALSE, ts, tp) :
        ts \in BOOLEAN, tp \in BOOLEAN }
    \cup
    { NoteElement(<<"2", 1>>, TRUE, IF tp THEN 4 ELSE 3, "pitch", "C", FALSE, FALSE, tp) :
        tp \in BOOLEAN }
    \cup
    { NoteElement(<<"1", 2>>, TRUE, 4, "pitch", "C", FALSE, FALSE, TRUE) }

\* Chord-flagged notes of step E: one in the first voice that carries a
\* tie-stop, a plain one in the second voice.
ChordNotes ==
    { NoteElement(<<"1", 1>>, TRUE, 4, "pitch", "E", TRUE, FALSE, TRUE),
      NoteElement(<<"2", 1>>, TRUE, 4, "pitch", "E", TRUE, FALSE, FALSE) }

\* A zero-length note and a note whose step letter is no note name.
OtherNotes ==
    { NoteElement(<<"1", 1>>, TRUE, 0, "pitch", "C", FALSE, FALSE, FALSE),
      NoteElement(<<"1", 1>>, TRUE, 3, "pitch", "H", FALSE, FALSE, FALSE) }

\* A rest, and a note with neither <pitch> nor <rest>.
Rests ==
    { NoteElement(<<"2", 1>>, TRUE, 3, "rest", "C", FALSE, FALSE, FALSE),
      NoteElement(<<"1", 1>>, TRUE, 3, "none", "C", FALSE, FALSE, FALSE) }

\* Note elements without a <duration> child (grace notes).
DurationlessNotes ==
    { NoteElement(<<"1", 1>>, FALSE, 0, "pitch", "H", FALSE, FALSE, FALSE),
      NoteElement(<<"2", 1>>, FALSE, 0, "pitch", "C", FALSE, FALSE, FALSE) }

NoteElements == TieNotes \cup ChordNotes \cup OtherNotes \cup Rests \cup DurationlessNotes

\* An <attributes> element that declares divisions = 7.
AttributesElements ==
    { Element("attributes", <<"1", 1>>, FALSE, 0, "none", "C", FALSE, FALSE, FALSE, TRUE, 7) }

\* <backup> with a duration of 3 units, or without a <duration> child.
BackupElements ==
    { Element("backup", <<"1", 1>>, hd, IF hd THEN 3 ELSE 0, "none", "C", FALSE, FALSE, FALSE, FALSE, 0) :
        hd \in BOOLEAN }

\* <forward> with a duration of 4 units, or without a <duration> child.
ForwardElements ==
    { Element("forward", <<"1", 1>>, hd, IF hd THEN 4 ELSE 0, "none", "C", FALSE, FALSE, FALSE, FALSE, 0) :
        hd \in BOOLEAN }

\* ------------------------------------------------------------------- state

VARIABLES
    divisions,           \* self.divisions
    current_beat,        \* self.current_beat (ticks)
    notes,               \* self.notes: sequence of Note records
    active_ties,         \* self.active_ties: tie key -> index in notes of the open Note
    chord_start_beat,    \* self.chord_start_beat (ticks)
    voice_beats,         \* self.voice_beats: voice key -> beat (ticks)
    measure_start_beat,  \* process_measure's local
    measure_duration,    \* process_measure's local
    elem,                \* process_measure's loop variable: the element last dispatched
    pc,                  \* where the caller and convert_file stand
    result,              \* what convert_file returned to this call
    written,             \* what this call wrote to output_file
    size,                \* input consumed by this converter instance
    last_onset,          \* history: voice key -> onset of the pair's latest non-chord note element in the part
    observed,            \* history: the largest current_position seen in the measure, << >> before the first
    beats,               \* round_beat on its own: the argument, then what each call returned
    song_data,           \* SongEditor: self.notes
    edited               \* SongEditor: the notes of the dict the last method call returned

vars == << divisions, current_beat, notes, active_ties, chord_start_beat, voice_beats,
           measure_start_beat, measure_duration, elem, pc, result, written, size,
           last_onset, observed, beats, song_data, edited >>

\* What the converter never touches: the state of round_beat called on its
\* own and of the editing tool.
tools == << beats, song_data, edited >>

converter == << divisions, current_beat, notes, active_ties, chord_start_beat, voice_beats >>

\* The empty dict.
EmptyMap == [ k \in {} |-> 0 ]

\* No return value / no file.
Nothing == [ title |-> "", bpm |-> 0, notes |-> << >> ]

\* ----------------------------------------------------------------- helpers

Max(a, b) == IF a >= b THEN a ELSE b

MaxOf(S) == CHOOSE x \in S : \A y \in S : y <= x

Abs(x) == IF x >= 0 THEN x ELSE 0 - x

\* A note_map that gives every other letter the offset of C.
note_map_with_default == [ s \in {"C", "D", "E", "F", "G", "A", "B", "H"} |->
                CASE s = "C" -> 0 [] s = "D" -> 2 [] s = "E" -> 4 [] s = "F" -> 5
                  [] s = "G" -> 7 [] s = "A" -> 9 [] s = "B" -> 11 [] OTHER -> 0 ]

\* pitch_to_midi's note_map.
note_map == [ s \in {"C", "D", "E", "F", "G", "A", "B"} |->
                CASE s = "C" -> 0 [] s = "D" -> 2 [] s = "E" -> 4 [] s = "F" -> 5
                  [] s = "G" -> 7 [] s = "A" -> 9 [] s = "B" -> 11 ]

\* pitch_to_midi; note_map[step] raises KeyError outside the seven letters.
pitch_to_midi(step, alter, octave) == (octave + 1) * 12 + note_map[step] + alter

\* Every <pitch> of the input has octave 4 and no <alter>.
midi_pitch(e) == pitch_to_midi(e.step, 0, 4)

\* A conversion that divides by the divisions a new converter starts with.
duration_to_beats_at_default(duration) == (duration * TicksPerBeat) \div DefaultDivisions

\* duration_to_beats: duration / self.divisions, in ticks.
duration_to_beats(duration) == (duration * TicksPerBeat) \div divisions

\* f"{voice}_{staff}": the pair stands for the string.
voice_key(e) == << e.voice, e.staff >>

\* Python's round(): nearest multiple of grid, a tie going to the even one.
RoundTo(x, grid) ==
    LET q == x \div grid
        r == x % grid
    IN  IF 2 * r < grid THEN q * grid
        ELSE IF 2 * r > grid THEN (q + 1) * grid
        ELSE IF q % 2 = 0 THEN q * grid ELSE (q + 1) * grid

\* A quantizer of half strength: it moves a value that is within tolerance
\* of the integer grid half of the way towards the grid.
round_beat_half_strength(beat) ==
    LET rounded == RoundTo(beat, TicksPerBeat)
    IN  IF Abs(beat - rounded) < Tolerance THEN (beat + rounded) \div 2 ELSE beat

\* round_beat.
round_beat(beat) ==
    LET rounded == RoundTo(beat, TicksPerBeat)
        half_rounded == RoundTo(beat, TicksPerBeat \div 2)
        quarter_rounded == RoundTo(beat, TicksPerBeat \div 4)
    IN  IF Abs(beat - rounded) < Tolerance THEN rounded
        ELSE IF Abs(beat - half_rounded) < Tolerance THEN half_rounded
        ELSE IF Abs(beat - quarter_rounded) < Tolerance THEN quarter_rounded
        ELSE beat

\* ---------------------------------------------------- process_note_element

\* process_note_element returns a Note (not None): the element has a
\* <duration>, is no rest and has a <pitch>.
creates_note(e) == e.has_duration /\ e.kind = "pitch"

\* pitch_to_midi raises KeyError: reached only when a Note is to be created.
raises_key_error(e) == creates_note(e) /\ e.step \notin DOMAIN note_map

\* A new voice cursor that starts at zero.
seeded_at_zero(vb, e, beat) ==
    IF voice_key(e) \in DOMAIN vb THEN vb ELSE (voice_key(e) :> 0) @@ vb

\* voice_beats after "if voice_key not in self.voice_beats: ... = self.current_beat".
seeded(vb, e, beat) ==
    IF voice_key(e) \in DOMAIN vb THEN vb ELSE (voice_key(e) :> beat) @@ vb

\* The Note process_note_element builds, given the voice cursors.
process_note_element(e, vb) ==
    [ pitch |-> midi_pitch(e),
      beat |-> seeded(vb, e, current_beat)[voice_key(e)],
      duration |-> duration_to_beats(e.duration),
      velocity |-> DefaultVelocity,
      voice |-> e.voice,
      staff |-> e.staff ]

\* ------------------------------------------------------------- process_tie

\* A tie key that leaves the staff out.
tie_key_without_staff(note) == << note.pitch, note.voice, 1 >>

tie_key(note) == << note.pitch, note.voice, note.staff >>

\* process_tie that also tells the caller to append the merged note.
process_tie_appends(e, note, ties, ns) ==
    LET k == << note.pitch, note.voice, note.staff >> IN
    IF e.tie_stop /\ k \in DOMAIN ties
    THEN [ should_add |-> TRUE,
           notes |-> [ ns EXCEPT ![ties[k]].duration = @ + note.duration ],
           active_ties |-> IF e.tie_start THEN ties
                           ELSE [ x \in DOMAIN ties \ {k} |-> ties[x] ] ]
    ELSE [ should_add |-> TRUE,
           notes |-> ns,
           active_ties |-> IF e.tie_start THEN (k :> (Len(ns) + 1)) @@ ties
                           ELSE ties ]

\* process_tie that swallows every tie-stop note, matched or not.
process_tie_drops_unmatched(e, note, ties, ns) ==
    LET k == << note.pitch, note.voice, note.staff >> IN
    IF e.tie_stop
    THEN [ should_add |-> FALSE,
           notes |-> IF k \in DOMAIN ties
                     THEN [ ns EXCEPT ![ties[k]].duration = @ + note.duration ]
                     ELSE ns,
           active_ties |-> IF e.tie_start THEN ties
                           ELSE [ x \in DOMAIN ties \ {k} |-> ties[x] ] ]
    ELSE [ should_add |-> TRUE,
           notes |-> ns,
           active_ties |-> IF e.tie_start THEN (k :> (Len(ns) + 1)) @@ ties
                           ELSE ties ]

\* process_tie that closes the entry at every matched tie-stop, also when
\* the note starts a tie itself.
process_tie_closes_chain(e, note, ties, ns) ==
    LET k == << note.pitch, note.voice, note.staff >> IN
    IF e.tie_stop /\ k \in DOMAIN ties
    THEN [ should_add |-> FALSE,
           notes |-> [ ns EXCEPT ![ties[k]].duration = @ + note.duration ],
           active_ties |-> [ x \in DOMAIN ties \ {k} |-> ties[x] ] ]
    ELSE [ should_add |-> TRUE,
           notes |-> ns,
           active_ties |-> IF e.tie_start THEN (k :> (Len(ns) + 1)) @@ ties
                           ELSE ties ]

\* process_tie that, when a matched tie-stop note also starts a tie, makes
\* that note (which is not appended) the open entry of the key.
process_tie_reopens_on_continuation(e, note, ties, ns) ==
    LET k == << note.pitch, note.voice, note.staff >> IN
    IF e.tie_stop /\ k \in DOMAIN ties
    THEN [ should_add |-> FALSE,
           notes |-> [ ns EXCEPT ![ties[k]].duration = @ + note.duration ],
           active_ties |-> IF e.tie_start
                           THEN [ x \in DOMAIN ties |-> IF x = k THEN Len(ns) + 1 ELSE ties[x] ]
                           ELSE [ x \in DOMAIN ties \ {k} |-> ties[x] ] ]
    ELSE [ should_add |-> TRUE,
           notes |-> ns,
           active_ties |-> IF e.tie_start THEN (k :> (Len(ns) + 1)) @@ ties
                           ELSE ties ]

\* process_tie: what it returns (should_add) and what it leaves in
\* self.active_ties and, through the open Note it mutates, in self.notes.
\* An open entry refers to a Note object; the model holds the position in
\* self.notes at which process_measure appends that object.
process_tie(e, note, ties, ns) ==
    LET k == tie_key(note) IN
    IF e.tie_stop /\ k \in DOMAIN ties
    THEN [ should_add |-> FALSE,
           notes |-> [ ns EXCEPT ![ties[k]].duration = @ + note.duration ],
           active_ties |-> IF e.tie_start THEN ties
                           ELSE [ x \in DOMAIN ties \ {k} |-> ties[x] ] ]
    ELSE [ should_add |-> TRUE,
           notes |-> ns,
           active_ties |-> IF e.tie_start THEN (k :> (Len(ns) + 1)) @@ ties
                           ELSE ties ]

\* --------------------------------------------------------- process_measure

\* duration_beats of a note element: 0 when it has no <duration>.
note_duration_beats(e) == IF e.has_duration THEN duration_to_beats(e.duration) ELSE 0

\* Lines 194-200: seed the voice cursor, then set the chord anchor.
anchor_after(e, vb) == IF e.chord THEN chord_start_beat ELSE vb[voice_key(e)]

\* Voice cursors that only an element for which a Note is built advances.
advanced_by_notes_only(e, vb) ==
    IF e.chord \/ ~ creates_note(e) THEN vb
    ELSE [ vb EXCEPT ![voice_key(e)] = @ + note_duration_beats(e) ]

\* Voice cursors that a chord note advances as well.
advanced_by_chord_too(e, vb) == [ vb EXCEPT ![voice_key(e)] = @ + note_duration_beats(e) ]

\* Lines 214-216: the voice cursors after the element.
advanced(e, vb) ==
    IF e.chord THEN vb ELSE [ vb EXCEPT ![voice_key(e)] = @ + note_duration_beats(e) ]

\* Line 218: max(self.voice_beats.values()).
max_voice_beat(vb) == MaxOf({ vb[k] : k \in DOMAIN vb })

\* A chord note placed at its own voice cursor.
placed_at_voice_cursor(e, built, anchor) == built

\* Lines 204-206: a chord note takes the chord start beat as its onset.
placed(e, built, anchor) == IF e.chord THEN [ built EXCEPT !.beat = anchor ] ELSE built

StartMeasure ==
    /\ pc = "measures"
    /\ size < MaxInput
    /\ measure_start_beat' = current_beat
    /\ measure_duration' = 0
    /\ pc' = "elems"
    /\ size' = size + 1
    /\ observed' = << >>
    /\ UNCHANGED << converter, elem, result, written, last_onset, tools >>

Attributes(e) ==
    /\ pc = "elems"
    /\ size < MaxInput
    /\ divisions' = IF e.has_divisions THEN e.divisions_value ELSE divisions
    /\ elem' = e
    /\ size' = size + 1
    /\ UNCHANGED << current_beat, notes, active_ties, chord_start_beat, voice_beats,
                    measure_start_beat, measure_duration, pc, result, written,
                    last_onset, observed, tools >>

NoteElem(e) ==
    /\ pc = "elems"
    /\ size < MaxInput
    /\ ~ raises_key_error(e)
    /\ LET vb == seeded(voice_beats, e, current_beat)
           anchor == anchor_after(e, vb)
           built == process_note_element(e, vb)
           note == placed(e, built, anchor)
           tied == process_tie(e, note, active_ties, notes)
           vb2 == advanced(e, vb)
       IN  /\ chord_start_beat' = anchor
           /\ IF creates_note(e)
              THEN /\ active_ties' = tied.active_ties
                   /\ notes' = IF tied.should_add THEN Append(tied.notes, note)
                               ELSE tied.notes
              ELSE UNCHANGED << active_ties, notes >>
           /\ voice_beats' = vb2
           /\ current_beat' = IF e.chord THEN current_beat ELSE max_voice_beat(vb2)
           /\ measure_duration' =
                IF e.chord THEN measure_duration
                ELSE Max(measure_duration, max_voice_beat(vb2) - measure_start_beat)
           /\ last_onset' = IF e.chord THEN last_onset
                            ELSE [ k \in DOMAIN last_onset \cup { voice_key(e) } |->
                                     IF k = voice_key(e) THEN anchor ELSE last_onset[k] ]
           /\ observed' = IF e.chord THEN observed
                          ELSE IF observed = << >>
                          THEN << max_voice_beat(vb2) - measure_start_beat >>
                          ELSE << Max(observed[1], max_voice_beat(vb2) - measure_start_beat) >>
    /\ elem' = e
    /\ size' = size + 1
    /\ UNCHANGED << divisions, measure_start_beat, pc, result, written, tools >>

\* A note whose step is no key of note_map: lines 176-200 have run when
\* pitch_to_midi raises, and the exception leaves convert_file.
NoteKeyError(e) ==
    /\ pc = "elems"
    /\ size < MaxInput
    /\ raises_key_error(e)
    /\ LET vb == seeded(voice_beats, e, current_beat)
       IN  /\ voice_beats' = vb
           /\ chord_start_beat' = anchor_after(e, vb)
           /\ last_onset' = IF e.chord THEN last_onset
                            ELSE [ k \in DOMAIN last_onset \cup { voice_key(e) } |->
                                     IF k = voice_key(e) THEN vb[k] ELSE last_onset[k] ]
    /\ elem' = e
    /\ pc' = "error"
    /\ size' = size + 1
    /\ UNCHANGED << divisions, current_beat, notes, active_ties,
                    measure_start_beat, measure_duration, result, written,
                    observed, tools >>

\* A backup that moves the part-wide cursor back by its own duration.
Backup_subtracts(e) ==
    /\ pc = "elems"
    /\ size < MaxInput
    /\ current_beat' = IF e.has_duration
                       THEN current_beat - duration_to_beats(e.duration)
                       ELSE current_beat
    /\ elem' = e
    /\ size' = size + 1
    /\ UNCHANGED << divisions, notes, active_ties, chord_start_beat, voice_beats,
                    measure_start_beat, measure_duration, pc, result, written,
                    last_onset, observed, tools >>

\* A backup that also takes every voice cursor back to the measure start.
Backup_rewinds_voices(e) ==
    /\ pc = "elems"
    /\ size < MaxInput
    /\ current_beat' = IF e.has_duration THEN measure_start_beat ELSE current_beat
    /\ voice_beats' = IF e.has_duration
                      THEN [ k \in DOMAIN voice_beats |-> measure_start_beat ]
                      ELSE voice_beats
    /\ elem' = e
    /\ size' = size + 1
    /\ UNCHANGED << divisions, notes, active_ties, chord_start_beat,
                    measure_start_beat, measure_duration, pc, result, written,
                    last_onset, observed, tools >>

Backup(e) ==
    /\ pc = "elems"
    /\ size < MaxInput
    /\ current_beat' = IF e.has_duration THEN measure_start_beat ELSE current_beat
    /\ elem' = e
    /\ size' = size + 1
    /\ UNCHANGED << divisions, notes, active_ties, chord_start_beat, voice_beats,
                    measure_start_beat, measure_duration, pc, result, written,
                    last_onset, observed, tools >>

\* A forward that also moves every voice cursor on.
Forward_moves_voices(e) ==
    /\ pc = "elems"
    /\ size < MaxInput
    /\ current_beat' = IF e.has_duration
                       THEN current_beat + duration_to_beats(e.duration)
                       ELSE current_beat
    /\ voice_beats' = [ k \in DOMAIN voice_beats |->
                          voice_beats[k] + note_duration_beats(e) ]
    /\ elem' = e
    /\ size' = size + 1
    /\ UNCHANGED << divisions, notes, active_ties, chord_start_beat,
                    measure_start_beat, measure_duration, pc, result, written,
                    last_onset, observed, tools >>

Forward(e) ==
    /\ pc = "elems"
    /\ size < MaxInput
    /\ current_beat' = IF e.has_duration
                       THEN current_beat + duration_to_beats(e.duration)
                       ELSE current_beat
    /\ elem' = e
    /\ size' = size + 1
    /\ UNCHANGED << divisions, notes, active_ties, chord_start_beat, voice_beats,
                    measure_start_beat, measure_duration, pc, result, written,
                    last_onset, observed, tools >>

\* A measure end that leaves the part-wide cursor where the last element
\* left it.
EndMeasure_keeps_cursor ==
    /\ pc = "elems"
    /\ pc' = "measures"
    /\ UNCHANGED << converter, measure_start_beat, measure_duration, elem, result,
                    written, size, last_onset, observed, tools >>

\* Lines 242-244, and process_measure returns.
EndMeasure ==
    /\ pc = "elems"
    /\ current_beat' = IF measure_duration > 0
                       THEN measure_start_beat + measure_duration
                       ELSE current_beat
    /\ pc' = "measures"
    /\ UNCHANGED << divisions, notes, active_ties, chord_start_beat, voice_beats,
                    measure_start_beat, measure_duration, elem, result, written, size,
                    last_onset, observed, tools >>

\* ------------------------------------------------------------ convert_file

\* Lines 252-256: the call starts on a converter that is new or has returned
\* from (or raised in) an earlier call.
ConvertFile ==
    /\ pc \in { "new", "done", "error" }
    /\ size < MaxInput
    /\ current_beat' = 0
    /\ notes' = << >>
    /\ active_ties' = EmptyMap
    /\ voice_beats' = EmptyMap
    /\ measure_start_beat' = 0
    /\ measure_duration' = 0
    /\ elem' = NoElement
    /\ pc' = "parts"
    /\ result' = Nothing
    /\ written' = Nothing
    /\ size' = size + 1
    /\ last_onset' = EmptyMap
    /\ observed' = << >>
    /\ UNCHANGED << divisions, chord_start_beat, tools >>

\* Lines 267-270: the next part.
StartPart ==
    /\ pc = "parts"
    /\ size < MaxInput
    /\ current_beat' = 0
    /\ voice_beats' = EmptyMap
    /\ last_onset' = EmptyMap
    /\ pc' = "measures"
    /\ size' = size + 1
    /\ UNCHANGED << divisions, notes, active_ties, chord_start_beat,
                    measure_start_beat, measure_duration, elem, result, written,
                    observed, tools >>

\* The part has no further measure.
EndPart ==
    /\ pc = "measures"
    /\ pc' = "parts"
    /\ UNCHANGED << converter, measure_start_beat, measure_duration, elem, result, written, size,
                    last_onset, observed, tools >>

\* Lines 278-287.
json_note(note) ==
    [ pitch |-> note.pitch,
      timing |-> [ beat |-> round_beat(note.beat), duration |-> round_beat(note.duration) ],
      velocity |-> note.velocity ]

json_notes(ns) == [ i \in 1..Len(ns) |-> json_note(ns[i]) ]

\* A sort that puts x before the entries of equal beat.
InsertBeforeEqualBeat(s, x) ==
    LET n == Cardinality({ i \in 1..Len(s) : s[i].timing.beat < x.timing.beat })
    IN  SubSeq(s, 1, n) \o << x >> \o SubSeq(s, n + 1, Len(s))

\* list.sort(key=beat) is stable: x goes behind every entry whose beat is
\* not larger.
InsertByBeat(s, x) ==
    LET n == Cardinality({ i \in 1..Len(s) : s[i].timing.beat <= x.timing.beat })
    IN  SubSeq(s, 1, n) \o << x >> \o SubSeq(s, n + 1, Len(s))

RECURSIVE sort_by_beat(_)
sort_by_beat(s) ==
    IF s = << >> THEN << >>
    ELSE InsertByBeat(sort_by_beat(SubSeq(s, 1, Len(s) - 1)), s[Len(s)])

\* Lines 276-304: no further part; serialize, sort, write, return.
Finish ==
    /\ pc = "parts"
    /\ result' = [ title |-> "Untitled", bpm |-> DefaultBpm,
                   notes |-> sort_by_beat(json_notes(notes)) ]
    /\ \E output_file \in BOOLEAN : written' = IF output_file THEN result' ELSE Nothing
    /\ pc' = "done"
    /\ UNCHANGED << converter, measure_start_beat, measure_duration, elem, size,
                    last_onset, observed, tools >>

\* --------------------------------------------------------- specification

\* __init__.
NewConverter ==
    /\ divisions = DefaultDivisions
    /\ current_beat = 0
    /\ notes = << >>
    /\ active_ties = EmptyMap
    /\ chord_start_beat = 0
    /\ voice_beats = EmptyMap
    /\ measure_start_beat = 0
    /\ measure_duration = 0
    /\ elem = NoElement
    /\ pc = "new"
    /\ result = Nothing
    /\ written = Nothing
    /\ size = 0
    /\ last_onset = EmptyMap
    /\ observed = << >>

\* No editing tool is in use.
NoEdit == [ method |-> "none", start_measure |-> 0, end_measure |-> 0, beats_per_measure |-> 0,
            min_pitch |-> {}, max_pitch |-> {}, notes |-> << >> ]

Init ==
    /\ NewConverter
    /\ beats = << >>
    /\ song_data = << >>
    /\ edited = NoEdit

Next ==
    \/ ConvertFile
    \/ StartPart
    \/ StartMeasure
    \/ \E e \in AttributesElements : Attributes(e)
    \/ \E e \in NoteElements : NoteElem(e)
    \/ \E e \in NoteElements : NoteKeyError(e)
    \/ \E e \in BackupElements : Backup(e)
    \/ \E e \in ForwardElements : Forward(e)
    \/ EndMeasure
    \/ EndPart
    \/ Finish

Spec == Init /\ [][Next]_vars

\* ------------------------------------------------------ round_beat, alone

\* Arguments of round_beat: every eighth of a beat within MaxEighths eighths
\* of zero (the quarter grid and the points midway between its values), and
\* the values around it on both sides of the tolerance.
BeatOffsets ==
    { 0 - (Tolerance + 1), 0 - Tolerance, 0 - (Tolerance - 1), 0 - 1, 0,
      1, Tolerance - 1, Tolerance, Tolerance + 1 }

BeatInputs ==
    { g * (TicksPerBeat \div 8) + d : g \in (0 - MaxEighths)..MaxEighths, d \in BeatOffsets }

RoundBeatInit ==
    /\ NewConverter
    /\ beats \in { << x >> : x \in BeatInputs }
    /\ song_data = << >>
    /\ edited = NoEdit

\* round_beat is called on what is at hand: the argument, or what the call
\* before returned.
RoundBeat ==
    /\ Len(beats) \in 1..MaxCalls
    /\ beats' = Append(beats, round_beat(beats[Len(beats)]))
    /\ UNCHANGED << converter, measure_start_beat, measure_duration, elem, pc, result,
                    written, size, last_onset, observed, song_data, edited >>

RoundBeatNext == RoundBeat

RoundBeatSpec == RoundBeatInit /\ [][RoundBeatNext]_vars

\* ------------------------------------------------------- edit_json.py

\* The notes of a song in the JSON schema: a pitch around middle C, a beat at
\* or next to a measure boundary, one beat long.
EditorPitches == { 59, 60, 61 }

EditorBeats == { 0, 4 * TicksPerBeat, 15 * (TicksPerBeat \div 2), 8 * TicksPerBeat }

EditorNotes ==
    { [ pitch |-> p, timing |-> [ beat |-> b, duration |-> TicksPerBeat ],
        velocity |-> DefaultVelocity ] : p \in EditorPitches, b \in EditorBeats }

RECURSIVE SeqsUpTo(_, _)
SeqsUpTo(S, n) ==
    IF n = 0 THEN { << >> }
    ELSE LET shorter == SeqsUpTo(S, n - 1)
         IN  shorter \cup { Append(q, x) : q \in shorter, x \in S }

\* An extraction that also takes the notes on the beat at which the range ends.
extract_measures_to_end_beat(ns, start_measure, end_measure, beats_per_measure) ==
    LET start_beat == (start_measure - 1) * beats_per_measure * TicksPerBeat
        end_beat == end_measure * beats_per_measure * TicksPerBeat
        in_range(note) == start_beat <= note.timing.beat /\ note.timing.beat <= end_beat
        kept == SelectSeq(ns, in_range)
    IN  [ i \in 1..Len(kept) |-> [ kept[i] EXCEPT !.timing.beat = @ - start_beat ] ]

\* SongEditor.extract_measures: the notes of the dict it returns.
extract_measures(ns, start_measure, end_measure, beats_per_measure) ==
    LET start_beat == (start_measure - 1) * beats_per_measure * TicksPerBeat
        end_beat == end_measure * beats_per_measure * TicksPerBeat
        in_range(note) == start_beat <= note.timing.beat /\ note.timing.beat < end_beat
        kept == SelectSeq(ns, in_range)
    IN  [ i \in 1..Len(kept) |-> [ kept[i] EXCEPT !.timing.beat = @ - start_beat ] ]

\* A pitch filter whose upper bound is exclusive.
filter_by_pitch_below_max(ns, min_pitch, max_pitch) ==
    LET passes(note) ==
            /\ ~ \E m \in min_pitch : note.pitch < m
            /\ ~ \E m \in max_pitch : note.pitch >= m
    IN  SelectSeq(ns, passes)

\* SongEditor.filter_by_pitch: the notes of the dict it returns.  An
\* Optional[int] is the empty set (None) or the set of the one number.
filter_by_pitch(ns, min_pitch, max_pitch) ==
    LET passes(note) ==
            /\ ~ \E m \in min_pitch : note.pitch < m
            /\ ~ \E m \in max_pitch : note.pitch > m
    IN  SelectSeq(ns, passes)

\* SongEditor(song_data).
EditorInit ==
    /\ NewConverter
    /\ beats = << >>
    /\ song_data \in SeqsUpTo(EditorNotes, MaxNotes)
    /\ edited = NoEdit

ExtractMeasures(start_measure, end_measure, beats_per_measure) ==
    /\ edited' = [ NoEdit EXCEPT !.method = "extract_measures",
                                 !.start_measure = start_measure,
                                 !.end_measure = end_measure,
                                 !.beats_per_measure = beats_per_measure,
                                 !.notes = extract_measures(song_data, start_measure,
                                                            end_measure, beats_per_measure) ]
    /\ UNCHANGED << converter, measure_start_beat, measure_duration, elem, pc, result,
                    written, size, last_onset, observed, beats, song_data >>

FilterByPitch(min_pitch, max_pitch) ==
    /\ edited' = [ NoEdit EXCEPT !.method = "filter_by_pitch",
                                 !.min_pitch = min_pitch,
                                 !.max_pitch = max_pitch,
                                 !.notes = filter_by_pitch(song_data, min_pitch, max_pitch) ]
    /\ UNCHANGED << converter, measure_start_beat, measure_duration, elem, pc, result,
                    written, size, last_onset, observed, beats, song_data >>

\* An optional pitch bound: None, or a pitch.
PitchBounds == { {} } \cup { { p } : p \in EditorPitches }

EditorNext ==
    \/ \E start_measure \in 0..MaxMeasure, end_measure \in 0..MaxMeasure,
          beats_per_measure \in { 3, 4 } :
            ExtractMeasures(start_measure, end_measure, beats_per_measure)
    \/ \E min_pitch \in PitchBounds, max_pitch \in PitchBounds :
            FilterByPitch(min_pitch, max_pitch)

EditorSpec == EditorInit /\ [][EditorNext]_vars

\* ------------------------------------------------------------------ claims

\* The step dispatches one measure element (elem' is that element).
ElementStep == pc = "elems" /\ size' = size + 1

\* The step stays inside one part: an element, or a measure boundary.
InPartStep == pc \in { "measures", "elems" } /\ pc' \in { "measures", "elems" }

\* The step dispatches a note element for which a Note is built and handed
\* to process_tie.
NoteBuiltStep == ElementStep /\ elem'.tag = "note" /\ creates_note(elem') /\ pc' = "elems"

\* The tie key of a note element.
ElementTieKey(e) == << midi_pitch(e), e.voice, e.staff >>

\* The onset the code gives the element: the chord anchor for a chord note,
\* else its voice cursor (seeded from the part-wide cursor when new).
Onset(e) ==
    IF e.chord THEN chord_start_beat
    ELSE IF voice_key(e) \in DOMAIN voice_beats THEN voice_beats[voice_key(e)]
    ELSE current_beat

\* The step merges the element into an open tie of its key.
MergeStep == NoteBuiltStep /\ elem'.tie_stop /\ ElementTieKey(elem') \in DOMAIN active_ties

\* Positions of notes that an open tie entry refers to.
OpenPositions == { active_ties[k] : k \in DOMAIN active_ties }

\* C1 (a): a tie-start note N1 that is not itself merged is appended with its
\* own onset and duration d1 and becomes the open entry of its key.
C1_Register ==
    (NoteBuiltStep /\ elem'.tie_start /\ ~ MergeStep)
        => /\ Len(notes') = Len(notes) + 1
           /\ notes'[Len(notes')].beat = Onset(elem')
           /\ notes'[Len(notes')].duration = duration_to_beats(elem'.duration)
           /\ ElementTieKey(elem') \in DOMAIN active_ties'
           /\ active_ties'[ElementTieKey(elem')] = Len(notes')

\* C1 (b): inside the part, until a tie-marked note of the same key comes,
\* the entry stays open and N1's note stays as it is.
C1_Keep ==
    \A k \in DOMAIN active_ties :
        (/\ InPartStep
         /\ ~ (NoteBuiltStep /\ ElementTieKey(elem') = k
                 /\ (elem'.tie_start \/ elem'.tie_stop)))
            => /\ k \in DOMAIN active_ties'
               /\ active_ties'[k] = active_ties[k]
               /\ active_ties[k] \in 1..Len(notes')
               /\ notes'[active_ties[k]] = notes[active_ties[k]]

\* C1 (c): the tie-stop note N2 of the key is not appended; N1's note keeps
\* its onset and grows by d2, and no other note changes.
C1_Merge ==
    MergeStep
        => LET i == active_ties[ElementTieKey(elem')]
           IN  /\ i \in 1..Len(notes)
               /\ notes' = [ notes EXCEPT ![i].duration = @ + duration_to_beats(elem'.duration) ]
               /\ tie_key(notes[i]) = ElementTieKey(elem')

\* C1 (d): a note that no open entry refers to is final: no later step of the
\* conversion changes or removes it.
C1_Closed ==
    \A i \in 1..Len(notes) :
        (i \notin OpenPositions /\ pc \notin { "new", "done", "error" })
            => (i \in 1..Len(notes') /\ notes'[i] = notes[i])

\* C1: a tie-start note N1 (duration d1) followed in the same part by a
\* tie-stop note N2 of the same (pitch, voice, staff) (duration d2), with no
\* other tie-marked note of that key in between, yields exactly one note: it
\* has N1's onset and duration d1 + d2, and N2 is never appended.  Stated as
\* the four steps of that history: (a) N1 is appended with its onset and d1
\* and opens the entry, (b) the entry and the note are kept until N2, (c) N2
\* adds d2 to that note and is not appended, (d) once closed, the note stays.
C1_TieMerge == [][ C1_Register /\ C1_Keep /\ C1_Merge /\ C1_Closed ]_vars

\* C1 witness: a tie-stop note was just merged: the only note in the list is
\* the tie-start note, of the element's key, lasting d1 + d2 = 3 + 4 units,
\* and the entry is closed.
C1_Witness ==
    /\ pc = "elems"
    /\ elem.tag = "note" /\ creates_note(elem) /\ elem.tie_stop /\ ~ elem.tie_start
    /\ Len(notes) = 1
    /\ tie_key(notes[1]) = ElementTieKey(elem)
    /\ notes[1].beat = 0
    /\ notes[1].duration = duration_to_beats(3) + duration_to_beats(4)
    /\ ElementTieKey(elem) \notin DOMAIN active_ties

\* The voice cursor a note element reads before it advances it: its own
\* (voice, staff) cursor, seeded from the part-wide cursor when new.
VoiceCursor(e) ==
    IF voice_key(e) \in DOMAIN voice_beats THEN voice_beats[voice_key(e)] ELSE current_beat

\* C2 (a): a non-chord note element (a note, a rest, one without duration)
\* makes its pre-advance voice cursor the anchor.
C2_AnchorSet ==
    (ElementStep /\ elem'.tag = "note" /\ ~ elem'.chord)
        => chord_start_beat' = VoiceCursor(elem')

\* C2 (b): no other element of the measure moves the anchor.
C2_AnchorKept ==
    (ElementStep /\ ~ (elem'.tag = "note" /\ ~ elem'.chord))
        => chord_start_beat' = chord_start_beat

\* C2 (c): a chord-flagged note that is emitted is emitted at the anchor.
C2_ChordAtAnchor ==
    (NoteBuiltStep /\ elem'.chord /\ Len(notes') = Len(notes) + 1)
        => notes'[Len(notes')].beat = chord_start_beat

\* C2: every emitted chord-flagged note has the onset of its anchor, the
\* pre-advance voice cursor of the most recent preceding non-chord note
\* element, whatever the chord note's own voice cursor is: (a) each non-chord
\* note element sets the anchor to its pre-advance cursor, (b) nothing else
\* in the measure moves it, (c) an emitted chord note is placed at it.
C2_ChordOnset == [][ C2_AnchorSet /\ C2_AnchorKept /\ C2_ChordAtAnchor ]_vars

\* C2 witness: a chord note of another voice was just emitted at the onset of
\* the preceding note, which is neither 0 nor its own voice cursor.
C2_Witness ==
    /\ pc = "elems"
    /\ elem.tag = "note" /\ elem.chord /\ creates_note(elem)
    /\ Len(notes) >= 2
    /\ tie_key(notes[Len(notes)]) = ElementTieKey(elem)
    /\ notes[Len(notes) - 1].voice # elem.voice
    /\ notes[Len(notes)].beat = notes[Len(notes) - 1].beat
    /\ notes[Len(notes)].beat > 0
    /\ voice_beats[voice_key(elem)] # notes[Len(notes)].beat

\* The element last dispatched in this measure is a <backup> with a duration,
\* and the step dispatches a note element, for which a Note is built, of a
\* (voice, staff) pair that has no cursor yet in this part.
NewVoiceAfterBackup ==
    /\ elem.tag = "backup" /\ elem.has_duration
    /\ NoteBuiltStep
    /\ voice_key(elem') \notin DOMAIN voice_beats

\* The backup last dispatched spans the whole advance observed in the measure.
FullBackup == duration_to_beats(elem.duration) = measure_duration

\* C3 as claimed: after a backup of the full elapsed duration, the first note
\* of a new (voice, staff) pair is emitted at the beat at which the measure
\* started.
C3_AsClaimed ==
    [][ (NewVoiceAfterBackup /\ FullBackup)
            => /\ Len(notes') = Len(notes) + 1
               /\ notes'[Len(notes')].beat = measure_start_beat ]_vars

\* C3, amended: after a backup that has a duration (of whatever length), the
\* first note of a new (voice, staff) pair, when it is not chord-flagged,
\* takes the beat at which the measure started as its onset: it becomes the
\* chord anchor, the new cursor stands one duration behind it, and the note
\* is emitted there unless it is merged into an open tie of its key.
C3_NewVoiceAtMeasureStart ==
    [][ (NewVoiceAfterBackup /\ ~ elem'.chord)
            => /\ chord_start_beat' = measure_start_beat
               /\ voice_beats'[voice_key(elem')] =
                    measure_start_beat + duration_to_beats(elem'.duration)
               /\ (~ MergeStep => Len(notes') = Len(notes) + 1)
               /\ (Len(notes') = Len(notes) + 1
                     => notes'[Len(notes')].beat = measure_start_beat) ]_vars

\* C3 witness: the second voice's first note was just emitted at the measure
\* start although the first voice, whose note precedes it, stands further on
\* (only a backup lets a new voice start behind the other cursors).
C3_Witness ==
    /\ pc = "elems"
    /\ elem.tag = "note" /\ creates_note(elem) /\ ~ elem.chord /\ elem.voice = "2"
    /\ Len(notes) = 2
    /\ notes[1].voice = "1" /\ notes[2].voice = "2"
    /\ notes[2].beat = measure_start_beat
    /\ measure_duration > 0
    /\ voice_beats[<<"1", 1>>] > measure_start_beat
    /\ voice_beats[<<"2", 1>>] = measure_start_beat + notes[2].duration
    /\ notes[2].duration > 0

\* C4 as claimed: every note in the output of a completed conversion has
\* beat >= 0 and duration > 0.
C4_AsClaimed ==
    pc = "done"
        => \A i \in 1..Len(result.notes) :
              /\ result.notes[i].timing.beat >= 0
              /\ result.notes[i].timing.duration > 0

\* The emitted notes as they are serialized: pitch, quantized beat and
\* duration, velocity.
Quantized(i) ==
    [ pitch |-> notes[i].pitch,
      timing |-> [ beat |-> round_beat(notes[i].beat),
                   duration |-> round_beat(notes[i].duration) ],
      velocity |-> notes[i].velocity ]

\* The quantized onsets of the emitted notes, in emission order.
QuantizedBeats == [ i \in 1..Len(notes) |-> round_beat(notes[i].beat) ]

\* Where the i-th of the notes with onsets qb belongs in a stable ascending
\* order: behind every note of smaller beat and behind the notes of equal
\* beat that were emitted before it.
Rank(qb, i) ==
    Cardinality({ j \in 1..Len(qb) : qb[j] < qb[i] })
    + Cardinality({ j \in 1..i : qb[j] = qb[i] })

\* C5: the output note list of a completed conversion is ascending by
\* quantized beat, holds exactly the emitted notes (each once, at its rank),
\* and notes of equal beat keep their emission order.
C5_SortedStable ==
    pc = "done"
        => /\ Len(result.notes) = Len(notes)
           /\ \A i, j \in 1..Len(result.notes) :
                 i < j => result.notes[i].timing.beat <= result.notes[j].timing.beat
           /\ LET qb == QuantizedBeats
              IN  \A i \in 1..Len(notes) : result.notes[Rank(qb, i)] = Quantized(i)

\* C5 witness: a completed conversion whose notes were not emitted in beat
\* order and of which two that differ share a quantized beat.
C5_Witness ==
    /\ pc = "done"
    /\ Len(result.notes) >= 3
    /\ \E i, j \in 1..Len(notes) : i < j /\ notes[i].beat > notes[j].beat
    /\ \E i, j \in 1..Len(notes) :
          /\ i < j
          /\ Quantized(i).timing.beat = Quantized(j).timing.beat
          /\ Quantized(i) # Quantized(j)

\* No element has been dispatched yet in the conversion that is running.
ConversionStarted == pc \in { "parts", "measures", "elems" } /\ elem = NoElement

\* C6 as claimed: at the start of each conversion all conversion state
\* (divisions, part-wide cursor, voice cursors, tie table, chord anchor,
\* emitted notes) is what a freshly constructed converter has there, so that
\* the conversion cannot differ from one on a fresh converter.
C6_AsClaimed ==
    ConversionStarted
        => /\ divisions = DefaultDivisions
           /\ current_beat = 0
           /\ voice_beats = EmptyMap
           /\ active_ties = EmptyMap
           /\ chord_start_beat = 0
           /\ notes = << >>

\* The Note an element stands for when it is emitted unmerged.
OwnNote(e) ==
    [ pitch |-> midi_pitch(e), beat |-> Onset(e),
      duration |-> duration_to_beats(e.duration),
      velocity |-> DefaultVelocity, voice |-> e.voice, staff |-> e.staff ]

\* C7: a note with a tie-stop marker for whose (pitch, voice, staff) the tie
\* table holds no open entry is no error: it is appended as an ordinary note
\* with its own onset and its own duration, and no other note changes.
C7_UnmatchedStop ==
    [][ (ElementStep /\ elem'.tag = "note" /\ creates_note(elem')
           /\ ~ raises_key_error(elem') /\ elem'.tie_stop
           /\ ElementTieKey(elem') \notin DOMAIN active_ties)
            => /\ pc' = "elems"
               /\ notes' = Append(notes, OwnNote(elem')) ]_vars

\* C7 witness: a tie-stop note of the second voice was just emitted unmerged
\* behind a tie-start note of the first voice, whose entry is still open and
\* whose duration is still its own.
C7_Witness ==
    /\ pc = "elems"
    /\ elem.tag = "note" /\ elem.tie_stop /\ ~ elem.chord /\ elem.voice = "2"
    /\ Len(notes) = 2
    /\ notes[1].voice = "1" /\ notes[1].pitch = notes[2].pitch
    /\ notes[1].duration = duration_to_beats(3)
    /\ notes[2].voice = "2" /\ notes[2].duration = duration_to_beats(elem.duration)
    /\ tie_key(notes[1]) \in DOMAIN active_ties

\* C8: two notes of one pitch that differ in voice or in staff never tie:
\* whenever a step changes a note already emitted, the step dispatches a
\* tie-stop note of that note's pitch, voice and staff; and a tie-stop note
\* that is not appended has lengthened a note of its own pitch, voice and staff.
C8_NoTieAcrossVoices ==
    [][ /\ \A i \in 1..Len(notes) :
             (pc \notin { "new", "done", "error" } /\ i \in 1..Len(notes') /\ notes'[i] # notes[i])
                => /\ NoteBuiltStep /\ elem'.tie_stop
                   /\ notes[i].voice = elem'.voice
                   /\ notes[i].staff = elem'.staff
                   /\ notes[i].pitch = midi_pitch(elem')
        /\ (NoteBuiltStep /\ elem'.tie_stop /\ Len(notes') = Len(notes))
                => \E i \in 1..Len(notes) :
                      /\ notes[i].voice = elem'.voice
                      /\ notes[i].staff = elem'.staff
                      /\ notes[i].pitch = midi_pitch(elem')
                      /\ notes'[i].duration = notes[i].duration + duration_to_beats(elem'.duration) ]_vars

\* C8 witness: with a tie of pitch C open in voice "1" on staff 1, tie-stop
\* notes of pitch C in voice "2" and on staff 2 were emitted as notes of their
\* own, and the open note has kept its duration.
C8_Witness ==
    /\ pc = "elems"
    /\ Len(notes) = 3
    /\ elem.tie_stop /\ elem.staff = 2
    /\ notes[1].voice = "1" /\ notes[1].staff = 1 /\ tie_key(notes[1]) \in DOMAIN active_ties
    /\ notes[2].voice = "2" /\ notes[2].staff = 1
    /\ notes[3].voice = "1" /\ notes[3].staff = 2
    /\ notes[1].pitch = notes[2].pitch /\ notes[2].pitch = notes[3].pitch
    /\ notes[1].duration = duration_to_beats(3)

\* The seven step letters.
StepLetters == { "C", "D", "E", "F", "G", "A", "B" }

\* The step dispatches a pitched note whose step letter is none of the seven.
BadStepStep ==
    ElementStep /\ elem'.tag = "note" /\ elem'.kind = "pitch" /\ elem'.step \notin StepLetters

\* C9 as claimed: a pitched note whose step letter is none of C, D, E, F, G,
\* A, B makes the conversion fail.
C9_AsClaimed == [][ BadStepStep => pc' = "error" ]_vars

\* C9, amended: a pitched note that has a duration and whose step letter is
\* none of the seven makes the conversion fail: no note is emitted for it,
\* the failed call returns no result and writes no file, and a result comes
\* only from a call that ran to its end.  Without a duration the element is
\* skipped before its pitch is looked at, and the conversion goes on.
C9_BadStepFails ==
    [][ /\ (BadStepStep /\ elem'.has_duration)
              => (pc' = "error" /\ notes' = notes /\ result' = Nothing /\ written' = Nothing)
        /\ (BadStepStep /\ ~ elem'.has_duration)
              => (pc' = "elems" /\ notes' = notes)
        /\ pc = "error" => (result' = Nothing /\ written' = Nothing /\ pc' \in { "error", "parts" })
        /\ (pc' = "done" /\ pc # "done") => pc = "parts" ]_vars

\* C9 witness: the conversion failed at a note with step letter H after it
\* had emitted a note; nothing was returned and nothing written.
C9_Witness ==
    /\ pc = "error"
    /\ elem.tag = "note" /\ elem.step = "H" /\ elem.has_duration
    /\ Len(notes) >= 1
    /\ result = Nothing
    /\ written = Nothing

\* C10 as claimed: a note element without a duration emits no note and
\* leaves the part-wide cursor and every voice cursor as they were.
C10_AsClaimed ==
    [][ (ElementStep /\ elem'.tag = "note" /\ ~ elem'.has_duration)
            => /\ notes' = notes
               /\ current_beat' = current_beat
               /\ \A k \in DOMAIN voice_beats :
                     k \in DOMAIN voice_beats' /\ voice_beats'[k] = voice_beats[k] ]_vars

\* The multiple of grid nearest to x (the lower one when x is midway).
NearestMultiple(x, grid) ==
    LET lo == (x \div grid) * grid
    IN  IF x - lo <= lo + grid - x THEN lo ELSE lo + grid

\* quantize as the claim words it: the nearest integer, half or quarter grid
\* value, tested in that order, when x is within the tolerance of it, and x
\* otherwise.
Quantize(x) ==
    IF Abs(x - NearestMultiple(x, TicksPerBeat)) < Tolerance
    THEN NearestMultiple(x, TicksPerBeat)
    ELSE IF Abs(x - NearestMultiple(x, TicksPerBeat \div 2)) < Tolerance
    THEN NearestMultiple(x, TicksPerBeat \div 2)
    ELSE IF Abs(x - NearestMultiple(x, TicksPerBeat \div 4)) < Tolerance
    THEN NearestMultiple(x, TicksPerBeat \div 4)
    ELSE x

\* C11: the beat quantizer returns the nearest integer, half or quarter grid
\* value when its argument is within the tolerance of it and the argument
\* otherwise, and it is idempotent: applied to a value it has returned, it
\* returns that value.
C11_Idempotent ==
    /\ \A i \in 2..Len(beats) : beats[i] = Quantize(beats[i - 1])
    /\ \A i \in 3..Len(beats) : beats[i] = beats[i - 1]

\* C11 witness: a value off the grid was moved onto a quarter value that is
\* no half value, and quantizing the result returned it again.
C11_Witness ==
    /\ Len(beats) = 3
    /\ beats[2] # beats[1]
    /\ beats[2] % (TicksPerBeat \div 4) = 0
    /\ beats[2] % (TicksPerBeat \div 2) # 0
    /\ beats[3] = beats[2]

\* The beat at which the range of the last extraction starts, and the beat
\* before which it ends.
RangeStart == (edited.start_measure - 1) * edited.beats_per_measure * TicksPerBeat

RangeEnd == edited.end_measure * edited.beats_per_measure * TicksPerBeat

\* The positions in the editor's note list that the last call is to retain.
Retained ==
    IF edited.method = "extract_measures"
    THEN { i \in 1..Len(song_data) :
             RangeStart <= song_data[i].timing.beat /\ song_data[i].timing.beat < RangeEnd }
    ELSE { i \in 1..Len(song_data) :
             /\ \A m \in edited.min_pitch : m <= song_data[i].pitch
             /\ \A m \in edited.max_pitch : song_data[i].pitch <= m }

\* What the last call is to return for the note at position i.
RetainedNote(i) ==
    IF edited.method = "extract_measures"
    THEN [ pitch |-> song_data[i].pitch,
           timing |-> [ beat |-> song_data[i].timing.beat - RangeStart,
                        duration |-> song_data[i].timing.duration ],
           velocity |-> song_data[i].velocity ]
    ELSE song_data[i]

\* C12 (result): a call of the editing tool returns exactly the notes it is
\* to retain, each once and in their original order: measure extraction those
\* with (start-1)*beatsPerMeasure <= b < end*beatsPerMeasure, their beat
\* rewritten to b - (start-1)*beatsPerMeasure and pitch, duration and
\* velocity as they were; pitch filtering those with min <= pitch <= max, an
\* absent bound being no bound, unchanged.
C12_Returned ==
    edited.method # "none"
        => /\ Len(edited.notes) = Cardinality(Retained)
           /\ \A i \in Retained :
                 edited.notes[Cardinality({ j \in Retained : j <= i })] = RetainedNote(i)

\* C12: the editing tool's calls return what C12 (result) says, and no call
\* changes the editor's own note list.
C12_Editor == [][ C12_Returned' /\ song_data' = song_data ]_vars

\* C12 witness: an extraction from the second measure on kept two notes of
\* different beats, in order and moved to the range start, and dropped none
\* for its pitch.
C12_Witness ==
    /\ edited.method = "extract_measures"
    /\ edited.start_measure = 2
    /\ Len(song_data) = 2 /\ Len(edited.notes) = 2
    /\ edited.notes[1].timing.beat = 0
    /\ edited.notes[2].timing.beat > 0
    /\ song_data[1].timing.beat = RangeStart
    /\ song_data[1].pitch # song_data[2].pitch

\* C13 (a): a tie-stop note that matches an open entry is not appended: the
\* entry's note, and no other, grows by the note's duration-in-beats and
\* keeps its onset.
C13_Extend ==
    MergeStep
        => /\ Len(notes') = Len(notes)
           /\ \A i \in 1..Len(notes) :
                 /\ notes'[i].beat = notes[i].beat
                 /\ notes'[i].duration =
                      IF i = active_ties[ElementTieKey(elem')]
                      THEN notes[i].duration + duration_to_beats(elem'.duration)
                      ELSE notes[i].duration

\* C13 (b): the entry stays open, on the same note, if and only if the
\* matching note also carries a tie-start marker; the other entries stay.
C13_OpenIffStart ==
    MergeStep
        => /\ (ElementTieKey(elem') \in DOMAIN active_ties') <=> elem'.tie_start
           /\ DOMAIN active_ties' \cup { ElementTieKey(elem') } = DOMAIN active_ties
           /\ \A k \in DOMAIN active_ties' : active_ties'[k] = active_ties[k]

\* C13: when a tie-stop note matches an open tie entry, the entry's note is
\* extended by the note's duration-in-beats, and the entry stays open if and
\* only if the note also carries a tie-start marker; so a chain of tied notes
\* of one (pitch, voice, staff) adds up in the one note its first member
\* emitted, and the key has no entry once the closing member is processed.
C13_TieChain == [][ C13_Extend /\ C13_OpenIffStart ]_vars

\* C13 witness: a chain of three tied notes (3, 4 and 4 units) has just been
\* closed: one note, at the first member's onset, lasting the sum, and the
\* table has no entry for the key.
C13_Witness ==
    /\ pc = "elems"
    /\ elem.tag = "note" /\ creates_note(elem) /\ elem.tie_stop /\ ~ elem.tie_start
    /\ Len(notes) = 1
    /\ tie_key(notes[1]) = ElementTieKey(elem)
    /\ notes[1].beat = 0
    /\ notes[1].duration = duration_to_beats(3) + duration_to_beats(4) + duration_to_beats(4)
    /\ ElementTieKey(elem) \notin DOMAIN active_ties

\* The step dispatches a note element of a (voice, staff) pair that has no
\* cursor yet in this part.
FirstOfVoiceStep ==
    ElementStep /\ elem'.tag = "note" /\ voice_key(elem') \notin DOMAIN voice_beats

\* C14: the cursor of a (voice, staff) pair first met in a part is seeded to
\* the part-wide cursor of that moment: after the element it stands at that
\* value plus what the element advances it by, and a note emitted for a
\* non-chord element has that value as its onset; a step that starts a part
\* leaves the voice-cursor map empty and the part-wide cursor at 0.
C14_Seeded ==
    [][ /\ FirstOfVoiceStep
            => /\ voice_key(elem') \in DOMAIN voice_beats'
               /\ voice_beats'[voice_key(elem')] =
                    current_beat + (IF elem'.chord \/ pc' = "error" THEN 0
                                    ELSE note_duration_beats(elem'))
               /\ (Len(notes') = Len(notes) + 1 /\ ~ elem'.chord)
                     => notes'[Len(notes')].beat = current_beat
        /\ (pc = "parts" /\ pc' = "measures")
            => (voice_beats' = EmptyMap /\ current_beat' = 0) ]_vars

\* C14 witness: a second voice first met after a forward was seeded behind
\* the forward: its note stands at the first voice's cursor plus the forward.
C14_Witness ==
    /\ pc = "elems"
    /\ elem.tag = "note" /\ creates_note(elem) /\ ~ elem.chord /\ elem.voice = "2"
    /\ Len(notes) = 2
    /\ notes[2].voice = "2"
    /\ <<"1", 1>> \in DOMAIN voice_beats
    /\ voice_beats[<<"1", 1>>] > 0
    /\ notes[2].beat = voice_beats[<<"1", 1>>] + duration_to_beats(4)
    /\ voice_beats[<<"2", 1>>] = notes[2].beat + notes[2].duration

\* The step dispatches a non-chord note element that has a duration and is
\* processed to its end (no exception leaves the conversion).
TimedStep ==
    /\ ElementStep /\ elem'.tag = "note" /\ ~ elem'.chord /\ elem'.has_duration
    /\ pc' = "elems"

\* C15: a non-chord note element with a duration (pitched, rest, pitchless or
\* a merged tie continuation) has its voice cursor's value as its onset and
\* advances that cursor, and no other, by its duration-in-beats; afterwards
\* the part-wide cursor is the maximum over the voice cursors.  A rest or a
\* pitchless element emits no note.
C15_Advance ==
    [][ /\ TimedStep
            => /\ DOMAIN voice_beats' = DOMAIN voice_beats \cup { voice_key(elem') }
               /\ voice_beats'[voice_key(elem')] =
                    VoiceCursor(elem') + duration_to_beats(elem'.duration)
               /\ \A k \in DOMAIN voice_beats \ { voice_key(elem') } :
                     voice_beats'[k] = voice_beats[k]
               /\ \A k \in DOMAIN voice_beats' : voice_beats'[k] <= current_beat'
               /\ \E k \in DOMAIN voice_beats' : voice_beats'[k] = current_beat'
               /\ Len(notes') = Len(notes) + 1
                     => notes'[Len(notes')].beat = VoiceCursor(elem')
        /\ (ElementStep /\ elem'.tag = "note" /\ elem'.kind # "pitch")
            => notes' = notes ]_vars

\* C15 witness: a rest of the second voice, met behind a note of the first,
\* took the time of a note: its cursor stands two durations on, the part-wide
\* cursor with it, and only the first voice's note was emitted.
C15_Witness ==
    /\ pc = "elems"
    /\ elem.tag = "note" /\ elem.kind = "rest" /\ elem.has_duration
    /\ Len(notes) = 1
    /\ DOMAIN voice_beats = { <<"1", 1>>, <<"2", 1>> }
    /\ voice_beats[<<"1", 1>>] = duration_to_beats(3)
    /\ voice_beats[<<"2", 1>>] = voice_beats[<<"1", 1>>] + duration_to_beats(elem.duration)
    /\ current_beat = voice_beats[<<"2", 1>>]

\* C16: a chord-flagged note element advances no cursor: the part-wide
\* cursor, every voice cursor that was seeded before it, the chord anchor and
\* the measure's longest observed advance are after it what they were.
C16_ChordFrame ==
    [][ (ElementStep /\ elem'.tag = "note" /\ elem'.chord)
            => /\ current_beat' = current_beat
               /\ \A k \in DOMAIN voice_beats :
                     k \in DOMAIN voice_beats' /\ voice_beats'[k] = voice_beats[k]
               /\ chord_start_beat' = chord_start_beat
               /\ measure_duration' = measure_duration
               /\ observed' = observed ]_vars

\* C16 witness: a chord note that lasts 4 units was emitted on a note of its
\* own voice, and that voice's cursor still stands at the end of the note.
C16_Witness ==
    /\ pc = "elems"
    /\ elem.tag = "note" /\ elem.chord /\ creates_note(elem)
    /\ Len(notes) = 2
    /\ notes[1].voice = elem.voice /\ notes[1].staff = elem.staff
    /\ notes[2].pitch = midi_pitch(elem) /\ notes[2].pitch # notes[1].pitch
    /\ notes[2].beat = notes[1].beat
    /\ notes[2].duration = duration_to_beats(4)
    /\ voice_beats[voice_key(elem)] = notes[1].beat + duration_to_beats(3)
    /\ current_beat = voice_beats[voice_key(elem)]

\* C17 as claimed: a chord-flagged note is emitted at the onset of the most
\* recent non-chord note element of its own (voice, staff) pair, whatever
\* other voices' elements were processed in between.
C17_AsClaimed ==
    [][ (/\ NoteBuiltStep /\ elem'.chord
         /\ voice_key(elem') \in DOMAIN last_onset
         /\ Len(notes') = Len(notes) + 1)
            => notes'[Len(notes')].beat = last_onset[voice_key(elem')] ]_vars

\* The step ends the element stream of a measure.
MeasureEndStep == pc = "elems" /\ pc' = "measures"

\* longestObservedAdvance: the largest (part-wide cursor - measure start)
\* seen after a non-chord note element of the measure, 0 if there was none.
LongestObservedAdvance == IF observed = << >> THEN 0 ELSE observed[1]

\* C18 as claimed: after the element stream of every measure the part-wide
\* cursor equals measureStartBeat + longestObservedAdvance.
C18_AsClaimed ==
    [][ MeasureEndStep
            => current_beat' = measure_start_beat + LongestObservedAdvance ]_vars

\* C18, amended: after the element stream of a measure whose longest
\* observed advance is positive, the part-wide cursor equals
\* measureStartBeat + longestObservedAdvance, whatever backup or forward
\* elements trail; when it is not positive (no non-chord note element, or
\* none that took the cursor past the measure start) the cursor stays where
\* the last element left it.
C18_MeasureEnd ==
    [][ MeasureEndStep
            => /\ LongestObservedAdvance > 0
                    => current_beat' = measure_start_beat + LongestObservedAdvance
               /\ LongestObservedAdvance <= 0 => current_beat' = current_beat ]_vars

\* C18 witness: a measure has ended on a backup that had taken the part-wide
\* cursor back to the measure start, and the cursor stands at the measure
\* start plus the longest observed advance.
C18_Witness ==
    /\ pc = "measures"
    /\ elem.tag = "backup" /\ elem.has_duration
    /\ LongestObservedAdvance > 0
    /\ current_beat = measure_start_beat + LongestObservedAdvance

\* What neither a backup nor a forward touches: the voice cursors, the chord
\* anchor, the tie table and the emitted notes.
CursorOnlyStep ==
    /\ voice_beats' = voice_beats
    /\ chord_start_beat' = chord_start_beat
    /\ active_ties' = active_ties
    /\ notes' = notes

\* C19 as claimed: a backup element sets the part-wide cursor to the
\* measure's starting beat, a forward element adds its duration-in-beats to
\* it, and neither changes a voice cursor, the chord anchor, the tie table
\* or the emitted notes.
C19_AsClaimed ==
    [][ /\ (ElementStep /\ elem'.tag = "backup")
              => (current_beat' = measure_start_beat /\ CursorOnlyStep)
        /\ (ElementStep /\ elem'.tag = "forward")
              => (current_beat' = current_beat + note_duration_beats(elem') /\ CursorOnlyStep) ]_vars

\* C19, amended: a backup element that has a duration sets the part-wide
\* cursor to the measure's starting beat (whatever that duration is), a
\* forward element that has one adds its duration-in-beats to the cursor,
\* and a backup or forward without a duration leaves the cursor as it is;
\* none changes a voice cursor, the chord anchor, the tie table or the
\* emitted notes.
C19_BackupForward ==
    [][ /\ (ElementStep /\ elem'.tag = "backup")
              => /\ current_beat' = IF elem'.has_duration THEN measure_start_beat
                                    ELSE current_beat
                 /\ CursorOnlyStep
        /\ (ElementStep /\ elem'.tag = "forward")
              => /\ current_beat' = IF elem'.has_duration
                                    THEN current_beat + duration_to_beats(elem'.duration)
                                    ELSE current_beat
                 /\ CursorOnlyStep ]_vars

\* C19 witness: a forward of 4 units has just taken the part-wide cursor
\* past every voice cursor, behind a note that stays as it was emitted.
C19_Witness ==
    /\ pc = "elems"
    /\ elem.tag = "forward" /\ elem.has_duration
    /\ Len(notes) = 1
    /\ DOMAIN voice_beats = { <<"1", 1>> }
    /\ voice_beats[<<"1", 1>>] = notes[1].beat + notes[1].duration
    /\ notes[1].duration > 0
    /\ current_beat = voice_beats[<<"1", 1>>] + duration_to_beats(4)

\* C20 as claimed: a tie left open when a part ends has no effect on a later
\* part: a tie-stop note that is the first element of its (voice, staff) pair
\* in its part, so that any open entry of its key comes from an earlier
\* part, is emitted as a note of its own and leaves the notes before it as
\* they are.
C20_AsClaimed ==
    [][ (NoteBuiltStep /\ elem'.tie_stop /\ voice_key(elem') \notin DOMAIN voice_beats)
            => notes' = Append(notes, OwnNote(elem')) ]_vars

\* The step dispatches an <attributes> element that declares divisions.
DivisionsStep == ElementStep /\ elem'.tag = "attributes" /\ elem'.has_divisions

\* durationUnits / divisions for the divisions in force, in ticks.
UnitsInBeats(units) == (units * TicksPerBeat) \div divisions

\* C21: an attributes element that declares a divisions value changes the
\* divisions value and nothing else (emitted notes, voice cursors, part-wide
\* cursor, tie table and chord anchor stay); nothing but such an element
\* changes it inside a conversion, so it is in force in the measure and in
\* the later ones; and every duration converted is durationUnits divided by
\* the value in force: the duration of an emitted note, what a merged note
\* adds, what a voice cursor advances by and what a forward adds.
C21_Divisions ==
    [][ /\ DivisionsStep
            => /\ divisions' = elem'.divisions_value
               /\ notes' = notes
               /\ voice_beats' = voice_beats
               /\ current_beat' = current_beat
               /\ active_ties' = active_ties
               /\ chord_start_beat' = chord_start_beat
        /\ divisions' # divisions => DivisionsStep
        /\ (NoteBuiltStep /\ Len(notes') = Len(notes) + 1)
            => notes'[Len(notes')].duration = UnitsInBeats(elem'.duration)
        /\ MergeStep
            => notes'[active_ties[ElementTieKey(elem')]].duration =
                 notes[active_ties[ElementTieKey(elem')]].duration + UnitsInBeats(elem'.duration)
        /\ TimedStep
            => voice_beats'[voice_key(elem')] = VoiceCursor(elem') + UnitsInBeats(elem'.duration)
        /\ (ElementStep /\ elem'.tag = "forward" /\ elem'.has_duration)
            => current_beat' = current_beat + UnitsInBeats(elem'.duration) ]_vars

\* C21 witness: two notes of 3 units each, the second emitted after an
\* attributes element set divisions to 7: the first lasts 3/24 of a beat as
\* before, the second 3/7, and the second starts where the first ends.
C21_Witness ==
    /\ pc = "elems"
    /\ divisions = 7
    /\ elem.tag = "note" /\ creates_note(elem) /\ elem.duration = 3
    /\ Len(notes) = 2
    /\ notes[1].duration = (3 * TicksPerBeat) \div DefaultDivisions
    /\ notes[2].duration = (3 * TicksPerBeat) \div 7
    /\ notes[2].beat = notes[1].beat + notes[1].duration
    /\ voice_beats[voice_key(elem)] = notes[2].beat + notes[2].duration

\* C22: every open entry of the tie table refers to a note that is in the
\* emitted note list and whose (pitch, voice, staff) is the entry's key; so a
\* tie extension lengthens a note of the output, and a merged continuation
\* note, which is not in the list, is never an open entry.
C22_OpenEntriesEmitted ==
    \A k \in DOMAIN active_ties :
        /\ active_ties[k] \in 1..Len(notes)
        /\ tie_key(notes[active_ties[k]]) = k

\* C22 witness: a note that carries both tie markers has just been merged
\* and the entry of its key is still open: it refers to the chain's first
\* note, extended, and not to the last note of the list, which another voice
\* emitted.
C22_Witness ==
    /\ pc = "elems"
    /\ elem.tag = "note" /\ creates_note(elem) /\ elem.tie_stop /\ elem.tie_start
    /\ Len(notes) = 2
    /\ ElementTieKey(elem) \in DOMAIN active_ties
    /\ active_ties[ElementTieKey(elem)] = 1
    /\ notes[1].duration = duration_to_beats(3) + duration_to_beats(4)
    /\ notes[2].voice # elem.voice

\* The step dispatches a non-chord note element of the pair k and is
\* processed to its end.
OwnNonChordStep(k) ==
    /\ ElementStep /\ elem'.tag = "note" /\ ~ elem'.chord
    /\ voice_key(elem') = k
    /\ pc' = "elems"

\* C23: within a part the cursor of a seeded (voice, staff) pair never
\* decreases and is changed by nothing but a non-chord note element of that
\* pair, which has the cursor's value as its onset and leaves the cursor at
\* that onset plus its duration-in-beats; so the onset of the pair's next
\* non-chord element is the earlier onset plus the earlier duration, whatever
\* backups, forwards, chord notes, other voices' elements or measure
\* boundaries lie in between.
C23_VoiceCursor ==
    [][ \A k \in DOMAIN voice_beats :
          InPartStep
            => /\ k \in DOMAIN voice_beats'
               /\ voice_beats'[k] >= voice_beats[k]
               /\ voice_beats'[k] # voice_beats[k] => OwnNonChordStep(k)
               /\ OwnNonChordStep(k)
                    => /\ voice_beats'[k] = voice_beats[k] + note_duration_beats(elem')
                       /\ last_onset'[k] = voice_beats[k]
                       /\ Len(notes') = Len(notes) + 1
                            => notes'[Len(notes')].beat = voice_beats[k]
               /\ (k \in DOMAIN last_onset /\ ~ OwnNonChordStep(k))
                    => (k \in DOMAIN last_onset' /\ last_onset'[k] = last_onset[k]) ]_vars

\* C23 witness: the first voice's second note starts where its first ended,
\* although a backup and a note of the second voice, emitted at the measure
\* start, came in between.
C23_Witness ==
    /\ pc = "elems"
    /\ elem.tag = "note" /\ creates_note(elem) /\ ~ elem.chord /\ elem.voice = "1"
    /\ Len(notes) = 3
    /\ notes[1].voice = "1" /\ notes[1].staff = 1 /\ notes[1].duration > 0
    /\ notes[2].voice = "2" /\ notes[2].beat = notes[1].beat
    /\ notes[3].voice = "1" /\ notes[3].staff = 1
    /\ notes[3].beat = notes[1].beat + notes[1].duration
    /\ voice_beats[<<"1", 1>>] = notes[3].beat + notes[3].duration

====
